---------------------------- MODULE Spec2Model ----------------------------
(***************************************************************************)
(* Model of the useAnimation hook (the "Animation Driver") and of its      *)
(* configuration resolution (the "Configuration Resolver").                *)
(*                                                                         *)
(* Numbers.  A JavaScript number is a tagged value: Num(n), NaN or Undef   *)
(* (an omitted field).  Durations, delays, scale factors and opacities are *)
(* counted in tenths (Num(5) is 0.5, Num(10) is 1); distances are whole    *)
(* pixels and rotations whole degrees.                                     *)
(*                                                                         *)
(* Strings built by template literals are kept structured: a class name is *)
(* the sequence of the segments its "-" signs separate                     *)
(* (<<"animate","slide","x","negative">>), and a style value `${v}unit` is *)
(* the record [val |-> v, unit |-> unit].                                  *)
(***************************************************************************)
EXTENDS Integers, Sequences, FiniteSets, TLC

VARIABLES
    mounted,             \* the component using the hook is mounted
    config,              \* the raw AnimationConfig of the latest render
    onAnimationComplete, \* the callback of the latest render (0: none given)
    handler,             \* handleAnimationEndEvent of the latest render
    key,                 \* useState(0): the replay generation
    elementRef,          \* elementRef.current
    animationTimerRef,   \* animationTimerRef.current (0: null)
    isInitialRenderRef,  \* isInitialRenderRef.current
    needsEffect,         \* the effect is due: "mount", "update" or "none"
    cleanup,             \* the cleanup closure the last effect run returned
    tasks,               \* the browser's pending setTimeout tasks
    nextTimer,           \* the next timer id window.setTimeout hands out
    el,                  \* the DOM elements: class list, listeners, style
    discarded,           \* the elements removed from the document for good
    fired,               \* history: callbacks invoked by the latest step
    bound,               \* history: what the most recent effect run was given
    cancelled,           \* history: timers pending when their cycle's cleanup ran
    owed,                \* history: "yes" from a replay on a present element
                         \* until the class is added again, "skipped" when the
                         \* bind after it was the skipped first bind, else "no"
    replays,             \* history: the number of replay() calls
    dispatched           \* history: the last animationend event the <Animate>
                         \* wrapper handled and the props it called

vars == <<mounted, config, onAnimationComplete, handler, key, elementRef,
          animationTimerRef, isInitialRenderRef, needsEffect, cleanup, tasks,
          nextTimer, el, discarded, fired, bound, cancelled, owed, replays,
          dispatched>>

----------------------------------------------------------------------------
(* Bounds of the model *)

MaxKey == 2
MaxTimers == 2
MaxHandlers == 2
MaxEvents == 2

----------------------------------------------------------------------------
(* JavaScript values *)

Num(n) == [k |-> "num", n |-> n]
Undef == [k |-> "undefined", n |-> 0]
NaN == [k |-> "NaN", n |-> 0]
NoVal == [k |-> "none", n |-> 0]

IsNum(v) == v.k = "num"

\* mutant: a ?? b keeps an undefined a
NullishKeeps(a, b) == a

\* a ?? b
Nullish(a, b) == IF a.k = "undefined" THEN b ELSE a

\* a >= 0, a < b, Math.abs(a): every comparison with NaN is false
GeqZero(a) == IsNum(a) /\ a.n >= 0
Less(a, b) == IsNum(a) /\ IsNum(b) /\ a.n < b.n
Abs(a) == IF IsNum(a) THEN Num(IF a.n < 0 THEN 0 - a.n ELSE a.n) ELSE NaN

\* `${v}unit`, a raw string, and the value of a property never set
Fmt(v, unit) == [val |-> v, unit |-> unit]
Raw(s) == [val |-> NoVal, unit |-> s]
Unset == Raw("")

----------------------------------------------------------------------------
(* DEFAULTS *)

DefaultDuration == 5
DefaultDelay == 0
DefaultEasing == "ease-out"
DefaultOpacityStart == 0
DefaultOpacityEnd == 10
DefaultDistance == 50
DefaultDegrees == 360
DefaultDegreesStart == 0
DefaultScale == 8
DefaultAxis == "x"

----------------------------------------------------------------------------
(* Configuration resolution *)

validateTime(value, defaultValue) ==
    IF IsNum(value) /\ value.n >= 0 THEN value ELSE Num(defaultValue)

\* mutant: the opacity check has no upper limit
validateOpacityUnbounded(value, defaultValue) ==
    IF IsNum(value) /\ value.n >= 0 THEN value ELSE Num(defaultValue)

validateOpacity(value, defaultValue) ==
    IF IsNum(value) /\ value.n >= 0 /\ value.n <= 10
    THEN value ELSE Num(defaultValue)

\* the values the hook derives from the raw configuration on every render
Resolve(c) ==
    [type |-> c.type,
     duration |-> validateTime(c.duration, DefaultDuration),
     delay |-> validateTime(c.delay, DefaultDelay),
     easing |-> IF c.easing = "" THEN DefaultEasing ELSE c.easing,
     distance |-> Nullish(c.distance, Num(DefaultDistance)),
     scale |-> Nullish(c.scale, Num(DefaultScale)),
     axis |-> IF c.axis = "" THEN DefaultAxis ELSE c.axis,
     opacityStart |-> validateOpacity(c.opacityStart, DefaultOpacityStart),
     opacityEnd |-> validateOpacity(c.opacityEnd, DefaultOpacityEnd),
     degrees |-> c.degrees,
     animateOnMount |-> c.animateOnMount]

\* configDegrees: a number, a {start, end} pair, or omitted
DegNum(v) == [k |-> "number", n |-> v, start |-> Undef, end |-> Undef]
DegPair(s, e) == [k |-> "pair", n |-> Undef, start |-> s, end |-> e]
DegNone == [k |-> "undefined", n |-> Undef, start |-> Undef, end |-> Undef]

\* mutant: the start given in a pair is ignored
degreesStartDefault(d) == Num(DefaultDegreesStart)

degreesStart(d) ==
    IF d.k = "pair" THEN Nullish(d.start, Num(DefaultDegreesStart))
    ELSE Num(DefaultDegreesStart)

degreesEnd(d) ==
    IF d.k = "number" THEN d.n
    ELSE IF d.k = "pair"
         THEN Nullish(d.end, Nullish(d.start, Num(DefaultDegrees)))
         ELSE Num(DefaultDegrees)


----------------------------------------------------------------------------
(* The DOM *)

Elements == {"e1", "e2"}
NoNode == "null"
Descendant == "descendant"

\* cls.startsWith("animate-")
StartsWithAnimate(cls) == Len(cls) >= 2 /\ cls[1] = "animate"

AnimateClasses(node) == {cls \in node.classList : StartsWithAnimate(cls)}

\* mutant: the prefix filter tests "animated" and so keeps the animate- classes
RemoveAnimatedClasses(classList) ==
    {cls \in classList : ~(Len(cls) >= 1 /\ cls[1] = "animated")}

\* classesToRemove.forEach((cls) => node.classList.remove(cls))
RemoveAnimateClasses(classList) ==
    {cls \in classList : ~StartsWithAnimate(cls)}

\* node.removeEventListener("animationend", h) and ("transitionend", h):
\* only animationend listeners are ever added, so the second removes nothing
RemoveListener(listeners, h) == {l \in listeners : l.id # h.id}

\* mutant: the pending timer is never cleared
KeepPendingTimer(pending, timerRef) == pending

\* if (animationTimerRef.current) clearTimeout(animationTimerRef.current)
ClearPendingTimer(pending, timerRef) ==
    IF timerRef # 0 THEN {t \in pending : t.id # timerRef} ELSE pending

StyleVars == {"--animation-duration", "--animation-delay",
              "--animation-easing", "--opacity-start", "--opacity-end",
              "--distance", "--scale", "--degrees-start", "--degrees-end"}

\* node.style.transform: "" or `rotate(${v}deg)`
NoTransform == [fn |-> "", val |-> NoVal, unit |-> ""]
RotateTransform(v) == [fn |-> "rotate", val |-> v, unit |-> "deg"]

\* a freshly created element: the wrapper's own class, nothing else; the
\* inline opacity is part of the element's style, and no statement of the
\* hook assigns node.style.opacity
FreshElement ==
    [classList |-> {<<"animated">>},
     listeners |-> {},
     transition |-> Raw(""),
     transform |-> NoTransform,
     animation |-> Raw(""),
     opacity |-> Raw(""),
     vars |-> [v \in StyleVars |-> Unset]]

\* node.style.setProperty(name, value) for each name of a set of assignments
SetProperties(node, assign) ==
    [node EXCEPT !.vars =
        [v \in StyleVars |-> IF v \in DOMAIN assign THEN assign[v] ELSE @[v]]]

----------------------------------------------------------------------------
(* Class derivation and custom properties *)

\* mutant: the comparison is distance > 0
directionSuffixStrict(distance) ==
    IF IsNum(distance) /\ distance.n > 0 THEN "positive" ELSE "negative"

\* distance >= 0 ? "positive" : "negative"
directionSuffix(distance) == IF GeqZero(distance) THEN "positive" ELSE "negative"

\* A text is the sequence of its lexical pieces ("rotate", "(", a numeric
\* literal "number", "deg", ")", ...); a pattern is a sequence of atoms: a
\* literal piece, "$" (the end of the input, the pattern has no m flag) or
\* "number" for the group (-?\d+\.?\d*), which needs at least one digit.
RECURSIVE MatchFrom(_, _, _, _)
MatchFrom(pattern, text, i, j) ==
    IF i > Len(pattern) THEN TRUE
    ELSE IF pattern[i] = "$"
         THEN j = Len(text) + 1 /\ MatchFrom(pattern, text, i + 1, j)
         ELSE /\ j <= Len(text)
              /\ text[j] = pattern[i]
              /\ MatchFrom(pattern, text, i + 1, j + 1)

\* text.match(pattern) finds a match starting somewhere in the text
Matches(pattern, text) ==
    \E j \in 1..(Len(text) + 1) : MatchFrom(pattern, text, 1, j)

\* text.includes(piece)
Includes(text, piece) == \E j \in 1..Len(text) : text[j] = piece

\* mutant: the parentheses of the pattern are escaped, /rotate\((...)deg\)/
rotatePatternEscaped == <<"rotate", "(", "number", "deg", ")">>

\* /rotate$(-?\d+\.?\d*)deg$/
rotatePattern == <<"rotate", "$", "number", "deg", "$">>

\* what window.getComputedStyle(node).transform can return for an inline
\* transform: "none" without one; for `rotate(${v}deg)` the resolved matrix
\* in a browser, or the declared text where styles are not resolved
ComputedTransforms(transform) ==
    IF transform.fn = ""
    THEN {<<"none">>}
    ELSE {<<"matrix", "(", "number", ",", "number", ",", "number", ",",
            "number", ",", "number", ",", "number", ")">>,
          <<transform.fn, "(", "number", transform.unit, ")">>}

\* currentTransform !== "none" && currentTransform.includes("rotate") and
\* the pattern matches
RotateMatch(currentTransform) ==
    \E text \in ComputedTransforms(currentTransform) :
        /\ text # <<"none">>
        /\ Includes(text, "rotate")
        /\ Matches(rotatePattern, text)

currentRotation(node, d) ==
    IF RotateMatch(node.transform) THEN node.transform.val ELSE degreesStart(d)

\* the animation class of a rotate configuration
RotateClass(node, d) ==
    IF Less(degreesEnd(d), currentRotation(node, d))
    THEN <<"animate", "rotate", "negative">>
    ELSE <<"animate", "rotate", "positive">>

\* the animation class of the other configurations: `animate-${type}`, ...
TypeClass(r) ==
    IF r.type = "slide"
    THEN <<"animate", r.type, r.axis, directionSuffix(r.distance)>>
    ELSE IF r.type = "bounce"
         THEN <<"animate", r.type, directionSuffix(r.distance)>>
         ELSE <<"animate", r.type>>

animationClass(node, r) ==
    IF r.type = "rotate" THEN RotateClass(node, r.degrees) ELSE TypeClass(r)

TimingProperties(r) ==
    [v \in {"--animation-duration", "--animation-delay", "--animation-easing"} |->
        IF v = "--animation-duration" THEN Fmt(r.duration, "s")
        ELSE IF v = "--animation-delay" THEN Fmt(r.delay, "s")
        ELSE Raw(r.easing)]

OpacityProperties(r) ==
    [v \in {"--opacity-start", "--opacity-end"} |->
        IF v = "--opacity-start" THEN Fmt(r.opacityStart, "")
        ELSE Fmt(r.opacityEnd, "")]

RotateProperties(node, r) ==
    [v \in {"--degrees-start", "--degrees-end"} |->
        IF v = "--degrees-start" THEN Fmt(currentRotation(node, r.degrees), "deg")
        ELSE Fmt(degreesEnd(r.degrees), "deg")]

\* mutant: only the opacity properties are written, whatever the kind
KindPropertiesOpacityOnly(r) == OpacityProperties(r)

\* the kind-specific properties of fade, slide, scale and bounce
KindProperties(r) ==
    IF r.type = "fade" THEN OpacityProperties(r)
    ELSE IF r.type = "slide"
    THEN ("--distance" :> Fmt(Abs(r.distance), "px")) @@ OpacityProperties(r)
    ELSE IF r.type = "scale"
    THEN ("--scale" :> Fmt(r.scale, "")) @@ OpacityProperties(r)
    ELSE IF r.type = "bounce"
    THEN ("--distance" :> Fmt(r.distance, "px")) @@ OpacityProperties(r)
    ELSE << >>

----------------------------------------------------------------------------
(* The configurations and callbacks the host supplies *)

BaseConfig ==
    [type |-> "fade", duration |-> Undef, delay |-> Undef, easing |-> "",
     distance |-> Undef, degrees |-> DegNone, scale |-> Undef,
     opacityStart |-> Undef, opacityEnd |-> Undef, axis |-> "",
     animateOnMount |-> "undefined"]

DriverConfigs ==
    {BaseConfig,
     [BaseConfig EXCEPT !.type = "slide", !.distance = Num(-100),
                        !.axis = "x", !.animateOnMount = "true"],
     [BaseConfig EXCEPT !.type = "rotate",
                        !.degrees = DegPair(Num(45), Num(225))]}

\* onAnimationComplete: 0 when none is given, else the identity of a function
Callbacks == {0, 1, 2}

\* the dependencies of the effect (besides key)
Deps(c, h) ==
    LET r == Resolve(c)
    IN  <<r.type, r.duration, r.delay, r.easing, r.distance, c.degrees,
          r.scale, r.opacityStart, r.opacityEnd, r.axis, h,
          c.animateOnMount>>

NoHandler == [id |-> 0, cb |-> 0]

NoCleanup == [live |-> FALSE, node |-> NoNode, handler |-> NoHandler]

\* history of the most recent effect run: the callback it was given, the
\* node it found, what became of it and, when it scheduled an activation, its
\* configuration and generation, the class it derived, the timer it set and
\* whether it repeated the run before it; and, once its activation has fired,
\* whether its listener has seen an event bubble from a descendant, how many
\* events with the element as target were dispatched and how many times its
\* callback was invoked
NoBind ==
    [cb |-> 0, cfg |-> BaseConfig, key |-> 0, node |-> NoNode, cls |-> << >>,
     timer |-> 0, did |-> "none", repeat |-> FALSE,
     bubbled |-> FALSE, ended |-> 0, calls |-> 0]

\* the props of the <Animate> wrapper that are functions: given or not
NoProps == [onAnimationComplete |-> FALSE, onAnimationEnd |-> FALSE]

\* history of the wrapper before it has handled any event
NoEvent == [target |-> NoNode, current |-> NoNode, props |-> NoProps,
            called |-> {}]

----------------------------------------------------------------------------
(* The state after the first render, before the effect has run *)

Init ==
    /\ mounted = TRUE
    /\ config \in DriverConfigs
    /\ onAnimationComplete \in {0, 1}
    /\ handler = [id |-> 1, cb |-> onAnimationComplete]
    /\ key = 0
    /\ elementRef = NoNode
    /\ animationTimerRef = 0
    /\ isInitialRenderRef = TRUE
    /\ needsEffect = "mount"
    /\ cleanup = NoCleanup
    /\ tasks = {}
    /\ nextTimer = 1
    /\ el = [e \in Elements |-> FreshElement]
    /\ discarded = {}
    /\ fired = {}
    /\ bound = NoBind
    /\ cancelled = {}
    /\ owed = "no"
    /\ replays = 0
    /\ dispatched = NoEvent

----------------------------------------------------------------------------
(* The host: renders, the element reference, unmounting *)

\* a render with a new configuration or a new callback, once the effects of
\* the render before it have run; the memoised handler is a new function
\* exactly when the callback changed
Rerender(c, cb) ==
    /\ mounted
    /\ needsEffect = "none"
    /\ <<c, cb>> # <<config, onAnimationComplete>>
    /\ cb # onAnimationComplete => handler.id < MaxHandlers
    /\ config' = c
    /\ onAnimationComplete' = cb
    /\ handler' = IF cb # onAnimationComplete
                  THEN [id |-> handler.id + 1, cb |-> cb]
                  ELSE handler
    /\ needsEffect' = IF Deps(c, handler') # Deps(config, handler)
                      THEN "update" ELSE "none"
    /\ fired' = {}
    /\ UNCHANGED <<mounted, key, elementRef, animationTimerRef,
                   isInitialRenderRef, cleanup, tasks, nextTimer, el,
                   discarded, bound, cancelled, owed, replays, dispatched>>

\* the elements the host created before it created r (e1, then e2)
Older(r) == IF r = "e2" THEN {"e1"} ELSE {}

\* the framework (or the caller) stores an element, or null, in the ref while
\* the component is mounted; an element that replaces another is a new node,
\* and the old one is gone
SetRef(r) ==
    /\ mounted
    /\ r # elementRef
    /\ r \notin discarded
    /\ elementRef' = r
    /\ discarded' = discarded \cup Older(r)
    /\ fired' = {}
    /\ owed' = "no"
    /\ UNCHANGED <<mounted, config, onAnimationComplete, handler, key,
                   animationTimerRef, isInitialRenderRef, needsEffect, cleanup,
                   tasks, nextTimer, el, bound, cancelled, replays,
                   dispatched>>

----------------------------------------------------------------------------
(* The effect: its cleanup and its body *)

\* mutant: the cleanup leaves the timer alone
CleanupTasksNone(cl, pending, timerRef) == pending

\* the cleanup closure: clears the timer in the ref, removes the handler it
\* captured from the node it captured
CleanupTasks(cl, pending, timerRef) ==
    IF cl.live THEN ClearPendingTimer(pending, timerRef) ELSE pending

\* mutant: the cleanup also rolls the element back to its unanimated look
CleanupElementsRollback(cl, els) ==
    IF cl.live /\ cl.node # NoNode
    THEN [els EXCEPT ![cl.node].listeners = RemoveListener(@, cl.handler),
                     ![cl.node].classList = RemoveAnimateClasses(@)]
    ELSE els

CleanupElements(cl, els) ==
    IF cl.live /\ cl.node # NoNode
    THEN [els EXCEPT ![cl.node].listeners = RemoveListener(@, cl.handler)]
    ELSE els

\* mutant: the exception ignores animateOnMount
SkipsWheneverInitial(initial, c) == initial

\* mutant: the exception ignores the first-bind flag
SkipsWheneverFalsy(initial, c) == c.animateOnMount # "true"

\* the first-bind exception
SkipsAnimation(initial, c) == initial /\ c.animateOnMount # "true"

\* mutant: a run that finds no element still clears the first-bind flag
FlagCleared(initial) == FALSE

\* mutant: a run that finds no element arms the first-bind exception again
FlagReset(initial) == TRUE

\* `if (!node) return;` comes before every write of isInitialRenderRef
FlagAfterAbsentBind(initial) == initial

\* mutant: the body also resets the inline transform
ClearedNodeResetsTransform(node, h) ==
    [node EXCEPT !.transition = Raw(""),
                 !.transform = NoTransform,
                 !.classList = RemoveAnimateClasses(@),
                 !.listeners = RemoveListener(@, h)]

\* the start of the body: transition reset, animate- classes and the current
\* handler removed
ClearedNode(node, h) ==
    [node EXCEPT !.transition = Raw(""),
                 !.classList = RemoveAnimateClasses(@),
                 !.listeners = RemoveListener(@, h)]

\* the node as the body leaves it
BoundNode(node, h, c, initial) ==
    LET r == Resolve(c)
        n0 == ClearedNode(node, h)
    IN  IF r.type = "rotate"
        THEN IF SkipsAnimation(initial, c)
             THEN [n0 EXCEPT !.transform = RotateTransform(degreesEnd(r.degrees))]
             ELSE SetProperties(n0, RotateProperties(n0, r) @@ TimingProperties(r))
        ELSE SetProperties(n0, TimingProperties(r) @@ KindProperties(r))

\* the DOM operations of the body on a present element, in source order
BindSteps(c, initial) ==
    <<"transition", "removeClasses", "removeListener", "clearTimeout">> \o
    (IF c.type = "rotate"
     THEN IF SkipsAnimation(initial, c)
          THEN <<"transform">>
          ELSE <<"setProperty", "setProperty", "setProperty", "setProperty",
                 "setProperty", "reflow", "setTimeout">>
     ELSE <<"setProperty", "setProperty", "setProperty">> \o
          (IF c.type \in {"fade", "slide", "scale", "bounce"}
           THEN <<"setProperty", "setProperty">> ELSE << >>) \o
          (IF c.type \in {"slide", "scale", "bounce"}
           THEN <<"setProperty">> ELSE << >>) \o
          (IF SkipsAnimation(initial, c)
           THEN << >> ELSE <<"reflow", "setTimeout">>))

\* mutant: the timer callback adds the class before it resets the animation
ActivationStepsClassFirst(t, present) ==
    IF present
    THEN <<"addClass", "animationNone", "reflow", "animationClear">> \o
         (IF t.handler.cb # 0 THEN <<"addListener">> ELSE << >>)
    ELSE << >>

\* the DOM operations of the timer callback, in source order
ActivationSteps(t, present) ==
    IF present
    THEN <<"animationNone", "reflow", "animationClear", "addClass">> \o
         (IF t.handler.cb # 0 THEN <<"addListener">> ELSE << >>)
    ELSE << >>

\* the closure handed to window.setTimeout
ActivationTask(id, node, c, h) ==
    [id |-> id, cls |-> animationClass(node, Resolve(c)), handler |-> h]

\* one run of the effect: the previous run's cleanup, then the body
Bind ==
    LET node == elementRef
        skip == SkipsAnimation(isInitialRenderRef, config)
        cleaned == CleanupTasks(cleanup, tasks, animationTimerRef)
        pending == ClearPendingTimer(cleaned, animationTimerRef)
        els == CleanupElements(cleanup, el)
        run == [NoBind EXCEPT !.cb = onAnimationComplete, !.node = node,
                              !.did = "absent"]
    IN  /\ mounted
        /\ needsEffect # "none"
        /\ (node # NoNode /\ ~skip) => nextTimer <= MaxTimers
        /\ needsEffect' = "none"
        /\ fired' = {}
        /\ cancelled' = cancelled \cup
                        (IF cleanup.live THEN {t.id : t \in tasks} ELSE {})
        /\ IF node = NoNode
           THEN /\ tasks' = cleaned
                /\ el' = els
                /\ cleanup' = NoCleanup
                /\ bound' = run
                /\ isInitialRenderRef' = FlagAfterAbsentBind(isInitialRenderRef)
                /\ UNCHANGED <<animationTimerRef, nextTimer, owed>>
           ELSE /\ el' = [els EXCEPT ![node] =
                            BoundNode(@, handler, config, isInitialRenderRef)]
                /\ isInitialRenderRef' = FALSE
                /\ IF skip
                   THEN /\ tasks' = pending
                        /\ cleanup' = NoCleanup
                        /\ bound' = [run EXCEPT !.did = "skipped"]
                        /\ owed' = IF owed = "yes" THEN "skipped" ELSE owed
                        /\ UNCHANGED <<animationTimerRef, nextTimer>>
                   ELSE /\ tasks' = pending \cup
                              {ActivationTask(nextTimer, els[node], config, handler)}
                        /\ animationTimerRef' = nextTimer
                        /\ nextTimer' = nextTimer + 1
                        /\ cleanup' = [live |-> TRUE, node |-> node,
                                       handler |-> handler]
                        /\ bound' =
                              [run EXCEPT
                                 !.did = "scheduled",
                                 !.cfg = config,
                                 !.key = key,
                                 !.timer = nextTimer,
                                 !.cls = animationClass(els[node], Resolve(config)),
                                 !.repeat = /\ bound.timer # 0
                                            /\ bound.node = node
                                            /\ bound.key = key
                                            /\ Resolve(bound.cfg) = Resolve(config)]
                        /\ UNCHANGED owed
        /\ UNCHANGED <<mounted, config, onAnimationComplete, handler, key,
                       elementRef, discarded, replays, dispatched>>

\* the component unmounts: the last run's cleanup, and nothing after it
Unbind ==
    /\ mounted
    /\ mounted' = FALSE
    /\ tasks' = CleanupTasks(cleanup, tasks, animationTimerRef)
    /\ el' = CleanupElements(cleanup, el)
    /\ cancelled' = cancelled \cup
                    (IF cleanup.live THEN {t.id : t \in tasks} ELSE {})
    /\ cleanup' = NoCleanup
    /\ needsEffect' = "none"
    /\ fired' = {}
    /\ owed' = "no"
    /\ UNCHANGED <<config, onAnimationComplete, handler, key, elementRef,
                   animationTimerRef, isInitialRenderRef, nextTimer, bound,
                   discarded, replays, dispatched>>

\* addEventListener("animationend", h): a listener already there is kept
AddListener(listeners, h, by) ==
    IF \E l \in listeners : l.id = h.id THEN listeners
    ELSE listeners \cup {[id |-> h.id, cb |-> h.cb, by |-> by]}

\* mutant: the class is added inside the `if (onAnimationComplete)` block
ActivatedNodeGuarded(node, t) ==
    IF t.handler.cb # 0
    THEN [node EXCEPT !.animation = Raw(""),
                      !.classList = @ \cup {t.cls},
                      !.listeners = AddListener(@, t.handler, t.id)]
    ELSE [node EXCEPT !.animation = Raw("")]

\* the node after the deferred activation of task t
ActivatedNode(node, t) ==
    [node EXCEPT !.animation = Raw(""),
                 !.classList = @ \cup {t.cls},
                 !.listeners = IF t.handler.cb # 0
                               THEN AddListener(@, t.handler, t.id) ELSE @]

\* mutant: the timer callback has no `if (currentNode)` guard and acts on the
\* element the driver was created for
ActivatedElementsUnguarded(els, currentNode, t) ==
    [els EXCEPT ![IF currentNode # NoNode THEN currentNode ELSE "e1"] =
                    ActivatedNode(@, t)]

\* const currentNode = elementRef.current; if (currentNode) { ... }
ActivatedElements(els, currentNode, t) ==
    IF currentNode # NoNode
    THEN [els EXCEPT ![currentNode] = ActivatedNode(@, t)]
    ELSE els

\* a pending timer fires
Activation(t) ==
    /\ t \in tasks
    /\ tasks' = tasks \ {t}
    /\ el' = ActivatedElements(el, elementRef, t)
    /\ fired' = {}
    /\ bound' = IF t.id = bound.timer /\ bound.did = "scheduled"
                THEN [bound EXCEPT !.did = IF elementRef # NoNode
                                           THEN "activated" ELSE "missed"]
                ELSE bound
    /\ owed' = IF elementRef # NoNode THEN "no" ELSE owed
    /\ UNCHANGED <<mounted, config, onAnimationComplete, handler, key,
                   elementRef, animationTimerRef, isInitialRenderRef,
                   needsEffect, cleanup, nextTimer, cancelled, discarded,
                   replays, dispatched>>

----------------------------------------------------------------------------
(* replay *)

\* mutant: replay leaves the class list alone
ReplayedNodeKeepsClasses(node) == [node EXCEPT !.animation = Raw("")]

\* mutant: replay stops before it re-enables animations
ReplayedNodeAnimationNone(node) ==
    [node EXCEPT !.animation = Raw("none"),
                 !.classList = RemoveAnimateClasses(@)]

\* animation "none", animate- classes removed, reflow, animation ""
ReplayedNode(node) ==
    [node EXCEPT !.animation = Raw(""),
                 !.classList = RemoveAnimateClasses(@)]

\* mutant: the updater ignores the previous key
FirstKey(prevKey) == 1

\* setKey((prevKey) => prevKey + 1)
NextKey(prevKey) == prevKey + 1

\* replay(), once the mount effect has run
Replay ==
    /\ mounted
    /\ needsEffect # "mount"
    /\ key < MaxKey
    /\ el' = IF elementRef # NoNode
             THEN [el EXCEPT ![elementRef] = ReplayedNode(@)]
             ELSE el
    /\ key' = NextKey(key)
    /\ needsEffect' = "update"
    /\ fired' = {}
    /\ bound' = IF bound.did = "activated"
                THEN [bound EXCEPT !.did = "replayed"] ELSE bound
    /\ owed' = IF elementRef # NoNode THEN "yes" ELSE "no"
    /\ replays' = replays + 1
    /\ UNCHANGED <<mounted, config, onAnimationComplete, handler, elementRef,
                   animationTimerRef, isInitialRenderRef, cleanup, tasks,
                   nextTimer, cancelled, discarded, dispatched>>

----------------------------------------------------------------------------
(* Completion events *)

\* mutant: the handler does not compare the target with the element
InvokedAnyTarget(e, target) == {l \in el[e].listeners : l.cb # 0}

\* the listeners of element e whose handler passes its guard for an
\* animationend event with the given target
Invoked(e, target) ==
    {l \in el[e].listeners : target = elementRef /\ l.cb # 0}

\* mutant: the handler leaves itself registered
KeepsListeners(listeners, invoked) == listeners

\* elementRef.current.removeEventListener(..., handleAnimationEndEvent)
WithoutInvoked(listeners, invoked) == listeners \ invoked

\* the history of the cycle, while it lasts, after an event at e with the
\* given target
Heard(e, target) ==
    IF ~mounted \/ bound.did # "activated" \/ e # bound.node THEN bound
    ELSE IF target = Descendant
    THEN [bound EXCEPT !.bubbled =
             @ \/ \E l \in el[e].listeners : l.by = bound.timer]
    ELSE [bound EXCEPT
             !.ended = IF e = elementRef /\ bound.cb # 0 /\ @ < MaxEvents
                       THEN @ + 1 ELSE @,
             !.calls = @ + Cardinality({l \in Invoked(e, target) :
                                           l.by = bound.timer})]

\* an animationend event reaches element e, from e itself or bubbling from a
\* descendant, while e has a listener or, up to MaxEvents times in a cycle
\* with a callback, after its listener is gone; every handler that invokes
\* its callback then removes itself from elementRef.current
AnimationEnd(e, target) ==
    /\ \/ el[e].listeners # {}
       \/ /\ target = e
          /\ e = elementRef
          /\ mounted
          /\ bound.did = "activated"
          /\ bound.cb # 0
          /\ bound.ended < MaxEvents
    /\ fired' = {[cb |-> l.cb, by |-> l.by] : l \in Invoked(e, target)}
    /\ el' = IF Invoked(e, target) # {}
             THEN [el EXCEPT ![elementRef].listeners =
                      WithoutInvoked(@, Invoked(e, target))]
             ELSE el
    /\ bound' = Heard(e, target)
    /\ UNCHANGED <<mounted, config, onAnimationComplete, handler, key,
                   elementRef, animationTimerRef, isInitialRenderRef,
                   needsEffect, cleanup, tasks, nextTimer, cancelled,
                   discarded, owed, replays, dispatched>>

----------------------------------------------------------------------------
(* Specifications *)

\* the steps of a driver whose ref is given the elements of Els
NextOver(Els) ==
    \/ \E c \in DriverConfigs, cb \in Callbacks : Rerender(c, cb)
    \/ \E r \in Els \cup {NoNode} : SetRef(r)
    \/ Bind
    \/ Unbind
    \/ \E t \in tasks : Activation(t)
    \/ Replay
    \/ \E e \in Els : \E target \in {e, Descendant} : AnimationEnd(e, target)

Next == NextOver({"e1"})

\* a host that binds the driver to the one element e1
Spec == Init /\ [][Next]_vars

NextSwap == NextOver(Elements)

\* a host that may also replace the element in the ref by a new one
SpecSwap == Init /\ [][NextSwap]_vars

----------------------------------------------------------------------------
(* A driver given one configuration out of a wide range of inputs *)

\* the values of `type`: the five kinds, a string that is none of them, and
\* a missing type (`${undefined}` is "undefined")
InputTypes == {"fade", "slide", "scale", "bounce", "zoom", "undefined"}

InputDistances == {Undef, Num(-100), Num(0), Num(50)}

InputAxes == {"", "x", "y"}

InputDegrees ==
    {DegNone, DegNum(Num(90)), DegNum(Num(-90)), DegNum(Num(0)),
     DegPair(Num(45), Num(225)), DegPair(Num(225), Num(45)),
     DegPair(Undef, Num(225)), DegPair(Undef, Num(-30)),
     DegPair(Num(10), Num(10))}

InputTimes == {Undef, NaN, Num(-3), Num(0), Num(12)}

InputOpacities == {Undef, NaN, Num(-1), Num(0), Num(4), Num(10), Num(11)}

InputMounts == {"true", "undefined"}

KindInputs ==
    {[BaseConfig EXCEPT !.type = t, !.distance = d, !.axis = a,
                        !.animateOnMount = m] :
        t \in InputTypes, d \in InputDistances, a \in InputAxes,
        m \in InputMounts}

RotateInputs ==
    {[BaseConfig EXCEPT !.type = "rotate", !.degrees = d,
                        !.animateOnMount = m] :
        d \in InputDegrees, m \in InputMounts}

TimeInputs ==
    {[BaseConfig EXCEPT !.duration = d, !.delay = l, !.animateOnMount = "true"] :
        d \in InputTimes, l \in InputTimes}

OpacityInputs ==
    {[BaseConfig EXCEPT !.opacityStart = a, !.opacityEnd = b,
                        !.animateOnMount = "true"] :
        a \in InputOpacities, b \in InputOpacities}

InputConfigs == KindInputs \cup RotateInputs \cup TimeInputs \cup OpacityInputs

InitInputs ==
    /\ mounted = TRUE
    /\ config \in InputConfigs
    /\ onAnimationComplete = 0
    /\ handler = [id |-> 1, cb |-> onAnimationComplete]
    /\ key = 0
    /\ elementRef = NoNode
    /\ animationTimerRef = 0
    /\ isInitialRenderRef = TRUE
    /\ needsEffect = "mount"
    /\ cleanup = NoCleanup
    /\ tasks = {}
    /\ nextTimer = 1
    /\ el = [e \in Elements |-> FreshElement]
    /\ discarded = {}
    /\ fired = {}
    /\ bound = NoBind
    /\ cancelled = {}
    /\ owed = "no"
    /\ replays = 0
    /\ dispatched = NoEvent

NextInputs ==
    \/ SetRef("e1")
    \/ Bind
    \/ \E t \in tasks : Activation(t)
    \/ Replay

\* the driver keeps the configuration it was first rendered with
SpecInputs == InitInputs /\ [][NextInputs]_vars

\* numeric fields that are omitted or NaN
InputMissing == {Undef, NaN}

NumericInputs ==
    {[BaseConfig EXCEPT !.type = t, !.duration = d, !.delay = l,
                        !.distance = x, !.scale = s, !.opacityStart = a,
                        !.opacityEnd = b, !.animateOnMount = "true"] :
        t \in {"fade", "slide", "scale", "bounce"},
        d \in InputMissing, l \in InputMissing, x \in InputMissing,
        s \in InputMissing, a \in InputMissing, b \in InputMissing}

\* the state after the first render with one of the given configurations
InitOver(Configs) ==
    /\ mounted = TRUE
    /\ config \in Configs
    /\ onAnimationComplete = 0
    /\ handler = [id |-> 1, cb |-> onAnimationComplete]
    /\ key = 0
    /\ elementRef = NoNode
    /\ animationTimerRef = 0
    /\ isInitialRenderRef = TRUE
    /\ needsEffect = "mount"
    /\ cleanup = NoCleanup
    /\ tasks = {}
    /\ nextTimer = 1
    /\ el = [e \in Elements |-> FreshElement]
    /\ discarded = {}
    /\ fired = {}
    /\ bound = NoBind
    /\ cancelled = {}
    /\ owed = "no"
    /\ replays = 0
    /\ dispatched = NoEvent

InitNumeric == InitOver(NumericInputs)

\* a driver given a configuration whose numeric fields are omitted or NaN
SpecNumeric == InitNumeric /\ [][NextInputs]_vars

\* the props of an <Animate> wrapper: a valid type and the optional fields
AnimateProps ==
    {[BaseConfig EXCEPT !.type = t, !.distance = d] :
        t \in {"fade", "slide", "scale", "rotate", "bounce"},
        d \in {Undef, Num(-100)}}

\* the configuration the wrapper builds from its props: the nine fields
\* type ... axis, and no animateOnMount
animationConfig(props) == [props EXCEPT !.animateOnMount = "undefined"]

AnimateConfigs == {animationConfig(p) : p \in AnimateProps}

InitAnimate == InitOver(AnimateConfigs)

\* the wrapper calls useAnimation(animationConfig) with no callback; its ref
\* callback stores the element at commit, before the effect runs
NextAnimate ==
    \/ \E c \in AnimateConfigs : Rerender(c, 0)
    \/ SetRef("e1")
    \/ (elementRef # NoNode /\ Bind)
    \/ Unbind
    \/ \E t \in tasks : Activation(t)

SpecAnimate == InitAnimate /\ [][NextAnimate]_vars

\* onAnimationComplete and onAnimationEnd, each given or omitted
WrapperProps ==
    {[onAnimationComplete |-> a, onAnimationEnd |-> b] : a, b \in BOOLEAN}

\* mutant: the wrapper calls onAnimationComplete whatever the target is
handleAnimationEndUnfiltered(target, current, props) ==
    (IF props.onAnimationComplete THEN {"onAnimationComplete"} ELSE {}) \cup
    (IF props.onAnimationEnd THEN {"onAnimationEnd"} ELSE {})

\* the props the wrapper's handleAnimationEnd calls for an event with the
\* given target while ref.current is `current`
handleAnimationEnd(target, current, props) ==
    (IF target = current /\ props.onAnimationComplete
     THEN {"onAnimationComplete"} ELSE {}) \cup
    (IF props.onAnimationEnd THEN {"onAnimationEnd"} ELSE {})

\* an animationend event reaches the wrapper's element, from the element
\* itself or bubbling from a descendant, and React calls handleAnimationEnd
\* of the latest render
WrapperAnimationEnd(target, props) ==
    /\ mounted
    /\ elementRef # NoNode
    /\ dispatched' = [target |-> target, current |-> elementRef,
                      props |-> props,
                      called |-> handleAnimationEnd(target, elementRef, props)]
    /\ UNCHANGED <<mounted, config, onAnimationComplete, handler, key,
                   elementRef, animationTimerRef, isInitialRenderRef,
                   needsEffect, cleanup, tasks, nextTimer, el, discarded,
                   fired, bound, cancelled, owed, replays>>

NextWrapper ==
    \/ NextAnimate
    \/ \E target \in {"e1", Descendant}, props \in WrapperProps :
          WrapperAnimationEnd(target, props)

\* the <Animate> wrapper with the events its element receives
SpecWrapper == InitAnimate /\ [][NextWrapper]_vars

\* the most recent bind went past the first-bind exception
BoundPast == bound.did \in {"scheduled", "activated", "missed", "replayed"}

----------------------------------------------------------------------------
(* Claims *)

\* C1: bound to one element, the element never carries more than one class
\* with the animate- prefix, whatever the interleaving of bind, activation,
\* replay, unbind and completion events.
C1_AtMostOneAnimateClass ==
    \A e \in Elements : Cardinality(AnimateClasses(el[e])) <= 1

\* C1 witness: a second bind cycle has activated and the element carries the
\* one class of that cycle.
C1_Witness ==
    /\ bound.did = "activated"
    /\ bound.timer = 2
    /\ AnimateClasses(el["e1"]) = {bound.cls}

\* C2 as stated: whenever a bind to a present element has returned and no
\* activation is pending, exactly one animate- class is on the element.
C2_Original ==
    (bound.node # NoNode /\ tasks = {})
        => Cardinality(AnimateClasses(el[bound.node])) = 1

\* C2, amended: once the activation scheduled by the most recent bind has
\* fired with the element present, and until the next replay or bind, exactly
\* one animate- class is on the element.
C2_ExactlyOneOnceActivated ==
    bound.did = "activated"
        => Cardinality(AnimateClasses(el[bound.node])) = 1

\* C2 witness: the activation of a bind has fired on the present element and
\* nothing is pending.
C2_Witness ==
    /\ bound.did = "activated"
    /\ tasks = {}
    /\ needsEffect = "none"
    /\ elementRef = bound.node

\* C3: a timer that was pending when its cycle's cleanup (unbind) ran never
\* fires afterwards: it is no longer pending, no listener was registered by
\* its activation, and no callback invoked came from such a listener.
C3_UnboundNeverActivates ==
    /\ \A t \in tasks : t.id \notin cancelled
    /\ \A e \in Elements : \A l \in el[e].listeners : l.by \notin cancelled
    /\ \A f \in fired : f.by \notin cancelled

\* C3 witness: the component was unmounted while the activation of its last
\* bind was still pending.
C3_Witness ==
    /\ ~mounted
    /\ bound.did = "scheduled"
    /\ bound.timer \in cancelled

\* C4 as stated: a callback that is invoked is the callback given to the most
\* recent bind.
C4_OnlyLatestCallback == \A f \in fired : f.cb = bound.cb

\* C5: at most one deferred activation is outstanding.
C5_AtMostOnePending == Cardinality(tasks) <= 1

\* C5 witness: a second bind ran while the first bind's activation was still
\* pending, and only its own activation is outstanding.
C5_Witness ==
    /\ 1 \in cancelled
    /\ \E t \in tasks : t.id = 2

\* C6: the generation is the number of replay() calls made so far: it starts
\* at 0, each replay adds exactly 1, and nothing else changes it.
C6_GenerationCountsReplays == key = replays

\* C6 witness: two replays, each followed by a bind whose activation fired.
C6_Witness ==
    /\ replays = 2
    /\ bound.key = 2
    /\ bound.did = "activated"

\* C7 as stated: after every replay() on a present element, and for as long
\* as the element stays in the ref and the component mounted, the animate-
\* class is off the element until an activation adds it again, and until then
\* that activation is on its way: the effect is due or a timer is pending.
C7_Original ==
    owed # "no" => /\ elementRef # NoNode
                   /\ AnimateClasses(el[elementRef]) = {}
                   /\ (needsEffect # "none" \/ tasks # {})

\* C7, amended: the same, for every replay except one whose follow-up bind is
\* the first bind to a present element with animateOnMount falsy (that bind
\* is skipped, and the class is not added). It holds for each replay of any
\* sequence, also for a replay made while the activation that follows the
\* replay before it has not fired.
C7_ReplayRemovesAndReadds ==
    (owed = "yes" /\ ~SkipsAnimation(isInitialRenderRef, config))
        => /\ elementRef # NoNode
           /\ AnimateClasses(el[elementRef]) = {}
           /\ (needsEffect # "none" \/ tasks # {})

\* C7 witness: a second replay was made while the activation that follows the
\* first had not fired, and the class is still to be added again.
C7_Witness ==
    /\ owed = "yes"
    /\ ~isInitialRenderRef
    /\ replays = 2
    /\ tasks # {}
    /\ needsEffect = "update"

\* C8: the first bind to a present element schedules an activation exactly
\* when animateOnMount is truthy; otherwise it leaves the element without an
\* animate- class and without a listener, leaves no activation pending, clears
\* the first-bind flag and, for rotate, sets the inline transform to the end
\* rotation.
C8_FirstBind ==
    [][(Bind /\ isInitialRenderRef /\ elementRef # NoNode) =>
          IF config.animateOnMount = "true"
          THEN \E t \in tasks' : t.id = nextTimer
          ELSE /\ tasks' = {}
               /\ AnimateClasses(el'[elementRef]) = {}
               /\ el'[elementRef].listeners = {}
               /\ ~isInitialRenderRef'
               /\ (config.type = "rotate" =>
                      el'[elementRef].transform =
                          RotateTransform(degreesEnd(config.degrees)))]_vars

\* C8 witness: the first bind of the rotate configuration was skipped and the
\* element shows the end rotation.
C8_Witness ==
    /\ bound.did = "skipped"
    /\ ~isInitialRenderRef
    /\ el["e1"].transform = RotateTransform(Num(225))
    /\ AnimateClasses(el["e1"]) = {}

----------------------------------------------------------------------------
(* Timers fire: window.setTimeout(..., 10) runs its callback unless cleared *)

Fairness == WF_vars(\E t \in tasks : Activation(t))

SpecFair == Spec /\ Fairness

\* a timer with this id and class is pending while e1 is in the ref
ActivationPending(i, cls) ==
    /\ elementRef = "e1"
    /\ \E t \in tasks : t.id = i /\ t.cls = cls

\* the class is on e1, or a bind or unbind intervened, or e1 left the ref
AddedOrSuperseded(i, cls) ==
    \/ cls \in el["e1"].classList
    \/ i \in cancelled
    \/ elementRef # "e1"

DerivedClasses == {animationClass(FreshElement, Resolve(c)) : c \in DriverConfigs}

\* C9: every bind on a present element after the first schedules an
\* activation with the derived class, whatever animateOnMount is; and if no
\* bind or unbind intervenes and the element stays present, that class is
\* eventually added.
C9_LaterBindsAnimate ==
    /\ [][(Bind /\ ~isInitialRenderRef /\ elementRef # NoNode) =>
             \E t \in tasks' :
                 /\ t.id = nextTimer
                 /\ t.cls = animationClass(el[elementRef], Resolve(config))]_vars
    /\ \A i \in 1..MaxTimers : \A cls \in DerivedClasses :
           ActivationPending(i, cls) ~> AddedOrSuperseded(i, cls)

\* C9 witness: a later bind with animateOnMount unset has scheduled its
\* activation, it has fired, and its class is on the element.
C9_Witness ==
    /\ bound.did = "activated"
    /\ bound.cfg.animateOnMount # "true"
    /\ bound.cls \in el["e1"].classList

\* C10: a bind that repeats the bind before it (same element, same resolved
\* configuration, same generation) leaves only its own activation pending,
\* and once that has fired the element carries exactly its one class.
C10_RepeatedBind ==
    bound.repeat =>
        /\ \A t \in tasks : t.id = bound.timer
        /\ bound.did = "activated" =>
               AnimateClasses(el[bound.node]) = {bound.cls}

\* C10 witness: the bind was repeated while the first activation was pending,
\* and the second activation has fired.
C10_Witness ==
    /\ bound.repeat
    /\ bound.did = "activated"
    /\ bound.timer - 1 \in cancelled

\* the class the table gives for kind, axis and distance
C11_TableClass(c) ==
    LET suffix == IF IsNum(c.distance) /\ c.distance.n < 0
                  THEN "negative" ELSE "positive"
        axis == IF c.axis = "" THEN "x" ELSE c.axis
    IN  CASE c.type = "fade" -> <<"animate", "fade">>
          [] c.type = "scale" -> <<"animate", "scale">>
          [] c.type = "slide" -> <<"animate", "slide", axis, suffix>>
          [] c.type = "bounce" -> <<"animate", "bounce", suffix>>

\* C11: for fade, slide, scale and bounce, every axis and every distance, the
\* class an activation adds is the one the table gives: the suffix is negative
\* exactly when the distance is below zero, and an omitted axis is x.
C11_ClassTable ==
    config.type \in {"fade", "slide", "scale", "bounce"} =>
        /\ \A t \in tasks : t.cls = C11_TableClass(config)
        /\ AnimateClasses(el["e1"]) \subseteq {C11_TableClass(config)}

\* C11 witness: the scenario {slide, distance -100, axis x} has activated and
\* the element carries animate-slide-x-negative.
C11_Witness ==
    /\ config.type = "slide"
    /\ config.distance = Num(-100)
    /\ bound.did = "activated"
    /\ AnimateClasses(el["e1"]) = {<<"animate", "slide", "x", "negative">>}

\* the start and end rotation of a number or a pair, and the class they give
C12_Start(d) == IF d.k = "number" THEN Num(0) ELSE Nullish(d.start, Num(0))

C12_End(d) == IF d.k = "number" THEN d.n ELSE d.end

C12_Class(d) ==
    IF C12_End(d).n < C12_Start(d).n
    THEN <<"animate", "rotate", "negative">>
    ELSE <<"animate", "rotate", "positive">>

C13_AbsolutePixels(c) ==
    LET d == IF c.distance = Undef THEN 50 ELSE c.distance.n
    IN  Fmt(Num(IF d < 0 THEN 0 - d ELSE d), "px")

\* C13: for slide and for bounce, whatever the sign of the distance d, a bind
\* to a present element leaves --distance set to "|d|px".
C13_DistanceIsAbsolute ==
    (config.type \in {"slide", "bounce"} /\ bound.did \notin {"none", "absent"})
        => el["e1"].vars["--distance"] = C13_AbsolutePixels(config)

\* element e is the same in els and in el but for its listeners
C14_SameButListeners(els, e) ==
    [els[e] EXCEPT !.listeners = {}] = [el[e] EXCEPT !.listeners = {}]

\* C14: the effect cleanup leaves every element's classes, custom properties
\* and inline styles as they are, whenever it runs; and an unbind leaves no
\* activation pending and no completion listener on the element, and changes
\* neither the element otherwise nor the generation.
C14_UnbindFrame ==
    /\ [](\A e \in Elements : C14_SameButListeners(CleanupElements(cleanup, el), e))
    /\ [][Unbind =>
             /\ tasks' = {}
             /\ el'["e1"].listeners = {}
             /\ \A e \in Elements : C14_SameButListeners(el', e)
             /\ key' = key]_vars

\* C14 witness: the component was unmounted after an activation with a
\* callback that no event had yet invoked; the element still carries the class
\* and its properties, the generation is what replay made it, and the
\* listener is gone.
C14_Witness ==
    /\ ~mounted
    /\ bound.did = "activated"
    /\ bound.cb # 0
    /\ bound.calls = 0
    /\ key = 1
    /\ AnimateClasses(el["e1"]) = {bound.cls}
    /\ el["e1"].vars["--animation-duration"] = Fmt(Num(DefaultDuration), "s")
    /\ el["e1"].listeners = {}

\* C15: a bind that finds the element reference null schedules no activation,
\* registers no listener, leaves every element as it is but for listeners
\* its cleanup removes, and leaves the first-bind flag and the generation
\* unchanged; so when every bind so far found no element, the next bind that
\* finds one is the first bind, and is skipped when animateOnMount is falsy.
C15_AbsentBindIsNoOp ==
    /\ [][(Bind /\ elementRef = NoNode) =>
             /\ tasks' \subseteq tasks
             /\ nextTimer' = nextTimer
             /\ \A e \in Elements :
                   /\ el'[e].listeners \subseteq el[e].listeners
                   /\ C14_SameButListeners(el', e)
             /\ isInitialRenderRef' = isInitialRenderRef
             /\ key' = key]_vars
    /\ [][(Bind /\ elementRef # NoNode /\ isInitialRenderRef
                /\ bound.did = "absent" /\ config.animateOnMount # "true")
             => bound'.did = "skipped"]_vars

\* C15 witness: the mount effect found no element, the element was attached
\* and replay() called, and the bind that followed was skipped as a first bind.
C15_Witness ==
    /\ bound.did = "skipped"
    /\ replays = 1
    /\ needsEffect = "none"
    /\ elementRef = "e1"
    /\ ~isInitialRenderRef

\* C16: a bind whose type is none of fade, slide, scale, rotate and bounce
\* (a missing type included) never leads to an animate- class on the element.
C16_UnknownKindAddsNoClass ==
    config.type \notin {"fade", "slide", "scale", "rotate", "bounce"}
        => AnimateClasses(el["e1"]) = {}

\* C17: a completion callback is invoked only by an event whose target is
\* the element in the ref; an event that bubbles from a descendant invokes
\* nothing and leaves every listener in place, so that while the cycle lasts
\* an event on the element itself still invokes the callback.
C17_OnlyTheElementItself ==
    /\ [][fired' # {} =>
             (elementRef # NoNode /\ AnimationEnd(elementRef, elementRef))]_vars
    /\ [][\A e \in Elements :
             AnimationEnd(e, Descendant) => (fired' = {} /\ el' = el)]_vars
    /\ []((mounted /\ bound.did = "activated" /\ bound.bubbled
              /\ bound.calls = 0 /\ elementRef = bound.node)
             => Invoked(elementRef, elementRef) # {})

\* C17 witness: the listener saw an event bubble from a descendant, and the
\* event on the element that came after it has just invoked the callback.
C17_Witness ==
    /\ bound.bubbled
    /\ bound.calls = 1
    /\ fired = {[cb |-> bound.cb, by |-> bound.timer]}

\* C18: in one bind cycle the callback is invoked at most once, and exactly
\* once when a completion event with the element as target has been
\* dispatched since the activation; events after the first invoke nothing.
C18_OncePerCycle ==
    /\ bound.calls <= 1
    /\ bound.ended >= 1 => bound.calls = 1

\* C18 witness: two completion events were dispatched on the element in one
\* cycle and the callback was invoked once.
C18_Witness ==
    /\ bound.did = "activated"
    /\ bound.ended = 2
    /\ bound.calls = 1
    /\ el["e1"].listeners = {}

\* C19 as stated: after every bind on a present element, the first bind's
\* instant rotation apart, the inline transition and the inline transform are
\* both unset.
C19_Original ==
    [][(Bind /\ elementRef # NoNode /\ ~isInitialRenderRef) =>
          /\ el'[elementRef].transition = Raw("")
          /\ el'[elementRef].transform = NoTransform]_vars

\* C19, amended: every bind on a present element resets the inline
\* transition and leaves the inline transform as it found it (only the skipped
\* first bind of a rotate configuration writes it), so the end rotation a
\* skipped first bind wrote is still set after the next bind.
C19_TransitionResetTransformKept ==
    [][(Bind /\ elementRef # NoNode) =>
          /\ el'[elementRef].transition = Raw("")
          /\ el'[elementRef].transform =
                IF config.type = "rotate"
                   /\ SkipsAnimation(isInitialRenderRef, config)
                THEN RotateTransform(degreesEnd(config.degrees))
                ELSE el[elementRef].transform]_vars

\* C19 witness: the first bind of the rotate configuration was skipped and
\* wrote rotate(225deg); a later bind has run and the transform is still set.
C19_Witness ==
    /\ bound.did = "scheduled"
    /\ el["e1"].transform = RotateTransform(Num(225))
    /\ el["e1"].transition = Raw("")

\* a resolved time is a number not below zero; a resolved opacity is a number
\* from 0 to 1 (0 to 10 tenths)
C20_TimeOk(v) == v.k = "num" /\ v.n >= 0

C20_OpacityOk(v) == v.k = "num" /\ v.n >= 0 /\ v.n <= 10

\* C20: whatever the raw duration, delay and opacity (numbers of any sign,
\* undefined, NaN), the resolved duration and delay are not negative and the
\* resolved opacity start and end lie in [0,1]; and so does every duration,
\* delay and opacity a bind has written to the element.
C20_ResolvedInRange ==
    LET r == Resolve(config)
    IN  /\ C20_TimeOk(r.duration)
        /\ C20_TimeOk(r.delay)
        /\ C20_OpacityOk(r.opacityStart)
        /\ C20_OpacityOk(r.opacityEnd)
        /\ \A v \in {"--animation-duration", "--animation-delay"} :
              el["e1"].vars[v] # Unset => C20_TimeOk(el["e1"].vars[v].val)
        /\ \A v \in {"--opacity-start", "--opacity-end"} :
              el["e1"].vars[v] # Unset => C20_OpacityOk(el["e1"].vars[v].val)

\* C20 witness: opacity {start: 1.1, end: NaN} was bound and activated, and
\* the element has the defaults 0 and 1.
C20_Witness ==
    /\ config.opacityStart = Num(11)
    /\ config.opacityEnd = NaN
    /\ bound.did = "activated"
    /\ el["e1"].vars["--opacity-start"] = Fmt(Num(DefaultOpacityStart), "")
    /\ el["e1"].vars["--opacity-end"] = Fmt(Num(DefaultOpacityEnd), "")

\* C21: an omitted field resolves to its documented default: duration 0.5,
\* delay 0, easing "ease-out", distance 50, rotation from 0 to 360, scale
\* 0.8, axis "x", opacity from 0 to 1; and those are the values a bind that
\* animates writes to the element.
C21_OmittedFieldsDefault ==
    LET r == Resolve(config)
        style == el["e1"].vars
    IN  /\ config.duration = Undef => r.duration = Num(5)
        /\ config.delay = Undef => r.delay = Num(0)
        /\ config.easing = "" => r.easing = "ease-out"
        /\ config.distance = Undef => r.distance = Num(50)
        /\ config.scale = Undef => r.scale = Num(8)
        /\ config.axis = "" => r.axis = "x"
        /\ config.opacityStart = Undef => r.opacityStart = Num(0)
        /\ config.opacityEnd = Undef => r.opacityEnd = Num(10)
        /\ config.degrees = DegNone =>
              /\ degreesStart(r.degrees) = Num(0)
              /\ degreesEnd(r.degrees) = Num(360)
        /\ BoundPast =>
              /\ config.duration = Undef =>
                    style["--animation-duration"] = Fmt(Num(5), "s")
              /\ config.delay = Undef =>
                    style["--animation-delay"] = Fmt(Num(0), "s")
              /\ config.easing = "" =>
                    style["--animation-easing"] = Raw("ease-out")
              /\ (config.type = "scale" /\ config.scale = Undef) =>
                    style["--scale"] = Fmt(Num(8), "")
              /\ (config.type = "slide" /\ config.distance = Undef) =>
                    style["--distance"] = Fmt(Num(50), "px")
              /\ (config.type = "rotate" /\ config.degrees = DegNone) =>
                    /\ style["--degrees-start"] = Fmt(Num(0), "deg")
                    /\ style["--degrees-end"] = Fmt(Num(360), "deg")
              /\ (config.type = "fade" /\ config.opacityStart = Undef
                    /\ config.opacityEnd = Undef) =>
                    /\ style["--opacity-start"] = Fmt(Num(0), "")
                    /\ style["--opacity-end"] = Fmt(Num(10), "")

\* C21 witness: a slide with every other field omitted has activated: the
\* element slides along x by 50px for 0.5s.
C21_Witness ==
    /\ config.type = "slide"
    /\ config.distance = Undef
    /\ config.axis = ""
    /\ bound.did = "activated"
    /\ <<"animate", "slide", "x", "positive">> \in el["e1"].classList
    /\ el["e1"].vars["--distance"] = Fmt(Num(50), "px")
    /\ el["e1"].vars["--animation-duration"] = Fmt(Num(5), "s")

\* the documented default a missing value v is replaced by
C22_OrDefault(v, default) == IF v \in {Undef, NaN} THEN Num(default) ELSE v

\* C22: duration, delay, opacity start and end, distance and scale resolve to
\* their documented default when the input is NaN or undefined, and no NaN
\* reaches the resolved configuration, the class or a custom property.
C22_NaNFallsBack ==
    LET r == Resolve(config)
    IN  /\ r.duration = C22_OrDefault(config.duration, 5)
        /\ r.delay = C22_OrDefault(config.delay, 0)
        /\ r.opacityStart = C22_OrDefault(config.opacityStart, 0)
        /\ r.opacityEnd = C22_OrDefault(config.opacityEnd, 10)
        /\ r.distance = C22_OrDefault(config.distance, 50)
        /\ r.scale = C22_OrDefault(config.scale, 8)
        /\ \A v \in StyleVars : el["e1"].vars[v].val # NaN
        /\ \A t \in tasks :
              t.cls = C11_TableClass([config EXCEPT !.distance = r.distance])

\* a number clamped to [0,1] (0 to 10 tenths)
C23_Clamped(v) ==
    IF v.n < 0 THEN Num(0) ELSE IF v.n > 10 THEN Num(10) ELSE v

\* C23: a numeric opacity start or end resolves to itself clamped to [0,1]:
\* to 0 when below 0 and to 1 when above 1, each field on its own.
C23_OpacityClamped ==
    LET r == Resolve(config)
    IN  /\ IsNum(config.opacityStart) =>
              r.opacityStart = C23_Clamped(config.opacityStart)
        /\ IsNum(config.opacityEnd) =>
              r.opacityEnd = C23_Clamped(config.opacityEnd)

\* C24: when an <Animate> wrapper has been mounted, its props have not
\* changed since (the bind of the mount is the most recent one) and no
\* activation is pending, the element carries the animation class of its type.
C24_EntrancePlaysOnMount ==
    (/\ mounted
     /\ elementRef = "e1"
     /\ needsEffect = "none"
     /\ tasks = {}
     /\ bound.did = "skipped" \/ bound.timer = 1)
        => \E cls \in AnimateClasses(el["e1"]) : cls[2] = config.type

\* the directional class of a configuration, by the tables of C11 and C12
C25_ClassOf(c) ==
    IF c.type = "rotate" THEN C12_Class(c.degrees) ELSE C11_TableClass(c)

\* C25: while the element of the most recent bind is in the ref, every
\* animate- class on it is the directional class of that bind's
\* configuration, and there is none when that bind was skipped: a class
\* derived by a superseded bind is never added after a newer bind has run.
C25_LastBindWins ==
    (elementRef # NoNode /\ bound.node = elementRef) =>
        /\ BoundPast =>
              AnimateClasses(el[elementRef]) \subseteq {C25_ClassOf(bound.cfg)}
        /\ bound.did = "skipped" => AnimateClasses(el[elementRef]) = {}

\* C25 witness: a bind with another configuration or generation superseded
\* one whose activation was pending, and the element carries the newer class.
C25_Witness ==
    /\ 1 \in cancelled
    /\ bound.timer = 2
    /\ ~bound.repeat
    /\ bound.did = "activated"
    /\ bound.cfg.type = "slide"
    /\ AnimateClasses(el["e1"]) = {<<"animate", "slide", "x", "negative">>}

\* C26: the activation a bind scheduled at generation N does not fire while
\* the generation is greater than N, also when replay() has advanced the
\* generation and the bind that follows it has not yet run.
C26_StaleGenerationNeverFires ==
    [][\A t \in tasks :
          (Activation(t) /\ t.id = bound.timer) => key = bound.key]_vars

\* operation a occurs in steps, and b only after the last a
C27_Before(steps, a, b) ==
    /\ \E i \in DOMAIN steps : steps[i] = a
    /\ \A i, j \in DOMAIN steps : (steps[i] = a /\ steps[j] = b) => i < j

\* the steps of the activation, in the order required
C27_ActivationOrder(steps) ==
    /\ SubSeq(steps, 1, 4) =
           <<"animationNone", "reflow", "animationClear", "addClass">>
    /\ \A i \in DOMAIN steps : i > 4 => steps[i] = "addListener"

C28_ReplayEffect ==
    [][Replay =>
          /\ key' = key + 1
          /\ IF elementRef # NoNode
             THEN /\ AnimateClasses(el'[elementRef]) = {}
                  /\ el'[elementRef].animation = Raw("")
                  /\ \A e \in Elements \ {elementRef} : el'[e] = el[e]
             ELSE el' = el]_vars

\* C28 witness: replay() was called on an element that carried the class of
\* an activated bind; the class is gone and the generation is 1.
C28_Witness ==
    /\ bound.did = "replayed"
    /\ needsEffect = "update"
    /\ key = 1
    /\ elementRef = "e1"
    /\ AnimateClasses(el["e1"]) = {}

\* C29: after unbind no completion listener registered by the driver remains
\* on any element, also when the element in the ref was replaced between a
\* bind and its activation.
C29_NoListenerAfterUnbind ==
    ~mounted => \A e \in Elements : el[e].listeners = {}

\* C30: the element in the ref never has more than one completion listener
\* of the driver; a listener is there only when the activation of the most
\* recent bind has fired and that bind was given a callback; and a listener
\* is only ever added to an element that has none.
C30_AtMostOneListener ==
    /\ [](elementRef # NoNode =>
             /\ Cardinality(el[elementRef].listeners) <= 1
             /\ \A l \in el[elementRef].listeners :
                   /\ bound.did \in {"activated", "replayed"}
                   /\ l.by = bound.timer
                   /\ bound.cb # 0
                   /\ l.cb = bound.cb)
    /\ [][\A e \in Elements :
             ~(el'[e].listeners \subseteq el[e].listeners)
                => el[e].listeners = {}]_vars

\* the five kinds of animation
C31_Kinds == {"fade", "slide", "scale", "rotate", "bounce"}

\* C31: after a skipped first bind of any of the five kinds the element has
\* the custom properties for duration, delay and easing, and the magnitude
\* variables of the kind (--degrees-start and --degrees-end for rotate).
C31_SkippedBindSetsProperties ==
    (bound.did = "skipped" /\ config.type \in C31_Kinds) =>
        LET r == Resolve(config)
            n == el[bound.node]
        IN  /\ \A v \in DOMAIN TimingProperties(r) :
                  n.vars[v] = TimingProperties(r)[v]
            /\ IF r.type = "rotate"
               THEN /\ n.vars["--degrees-start"] # Unset
                    /\ n.vars["--degrees-end"] # Unset
               ELSE \A v \in DOMAIN KindProperties(r) : n.vars[v] # Unset

\* C32: after a skipped first bind the end state is on the element's inline
\* style: the final rotation for rotate, the resolved end opacity for fade,
\* slide, scale and bounce.
C32_SkippedBindAppliesEndState ==
    (bound.did = "skipped" /\ config.type \in C31_Kinds) =>
        LET r == Resolve(config)
            n == el[bound.node]
        IN  IF r.type = "rotate"
            THEN n.transform = RotateTransform(degreesEnd(r.degrees))
            ELSE n.opacity = Fmt(r.opacityEnd, "")

\* the custom properties an animating bind of each kind is to write
C33_Names(type) ==
    {"--animation-duration", "--animation-delay", "--animation-easing"} \cup
    (IF type = "fade" THEN {"--opacity-start", "--opacity-end"}
     ELSE IF type \in {"slide", "bounce"}
     THEN {"--distance", "--opacity-start", "--opacity-end"}
     ELSE IF type = "scale"
     THEN {"--scale", "--opacity-start", "--opacity-end"}
     ELSE {"--degrees-start", "--degrees-end"})

\* C33: a bind of one of the five kinds that schedules an activation writes
\* --animation-duration as `${duration}s`, --animation-delay as `${delay}s`,
\* --animation-easing as the easing string, writes the kind-specific
\* properties of the table, and writes no other custom property.
C33_AnimatingBindProperties ==
    [][(/\ mounted'
        /\ needsEffect # "none"
        /\ needsEffect' = "none"
        /\ bound'.did = "scheduled"
        /\ config.type \in C31_Kinds) =>
           LET r == Resolve(config)
               before == el[elementRef].vars
               after == el'[elementRef].vars
           IN  /\ after["--animation-duration"] = Fmt(r.duration, "s")
               /\ after["--animation-delay"] = Fmt(r.delay, "s")
               /\ after["--animation-easing"] = Raw(r.easing)
               /\ \A v \in C33_Names(r.type) : after[v] # Unset
               /\ \A v \in StyleVars \ C33_Names(r.type) :
                     after[v] = before[v]]_vars

\* C33 witness: an animating bind of a bounce has written the timing
\* properties, --distance and the opacity pair, and neither --scale nor the
\* degrees pair.
C33_Witness ==
    /\ bound.did = "scheduled"
    /\ config.type = "bounce"
    /\ el["e1"].vars["--animation-duration"] = Fmt(Num(DefaultDuration), "s")
    /\ {v \in StyleVars : el["e1"].vars[v] # Unset} = C33_Names("bounce")

\* C34: a timer callback that finds no element in the ref changes no element
\* (no class, no listener) and leaves nothing pending; and after the
\* activation of the most recent bind was missed in this way, no element of
\* the document carries a class of the driver and no task of that bind is
\* left that could add one later.
C34_AbsentActivationIsSkipped ==
    /\ [][(/\ tasks' # tasks
           /\ tasks' \subseteq tasks
           /\ needsEffect' = needsEffect
           /\ mounted' = mounted
           /\ elementRef = NoNode) =>
              /\ el' = el
              /\ Cardinality(tasks \ tasks') = 1]_vars
    /\ [](bound.did = "missed" =>
             /\ \A t \in tasks : t.id # bound.timer
             /\ \A e \in Elements \ discarded :
                   /\ AnimateClasses(el[e]) = {}
                   /\ \A l \in el[e].listeners : l.by # bound.timer)

\* C34 witness: the activation of the most recent bind fired while the ref
\* was empty, the element is back in the ref, and it has no class of the
\* driver.
C34_Witness ==
    /\ bound.did = "missed"
    /\ bound.cb # 0
    /\ elementRef = "e1"
    /\ tasks = {}
    /\ AnimateClasses(el["e1"]) = {}
    /\ el["e1"].listeners = {}

\* C35: for every animationend event the wrapper handles, onAnimationComplete
\* (when given) is called exactly when the event's target is the wrapper's
\* own element, and onAnimationEnd (when given) is called whatever the target
\* is, events bubbled from descendants included; a prop that is not given is
\* not called.
C35_WrapperCallbacks ==
    dispatched # NoEvent =>
        /\ ("onAnimationComplete" \in dispatched.called) <=>
              (dispatched.props.onAnimationComplete /\ dispatched.target = "e1")
        /\ ("onAnimationEnd" \in dispatched.called) <=>
              dispatched.props.onAnimationEnd

\* C35 witness: an event bubbled from a descendant reached a wrapper given
\* both props, and only onAnimationEnd was called.
C35_Witness ==
    /\ dispatched.target = Descendant
    /\ dispatched.props = [onAnimationComplete |-> TRUE, onAnimationEnd |-> TRUE]
    /\ dispatched.called = {"onAnimationEnd"}
    /\ bound.did = "activated"

\* the configured start of a rotation: the start of a pair, 0 for a bare
\* number, for a pair without start and when degrees are omitted
C36_Start(d) ==
    IF d.k = "pair" /\ d.start # Undef THEN d.start ELSE Num(0)

C37_FlagIsMonotone ==
    /\ [](bound = NoBind => isInitialRenderRef)
    /\ [][isInitialRenderRef' => isInitialRenderRef]_vars
    /\ [][(isInitialRenderRef /\ ~isInitialRenderRef') <=>
             (/\ isInitialRenderRef
              /\ mounted'
              /\ needsEffect # "none"
              /\ needsEffect' = "none"
              /\ elementRef # NoNode)]_vars
    /\ [][(/\ mounted'
           /\ needsEffect # "none"
           /\ needsEffect' = "none"
           /\ bound'.did = "skipped") =>
              (isInitialRenderRef /\ ~isInitialRenderRef')]_vars

\* C37 witness: after the flag was cleared and a replay was called, the
\* element left the ref, a bind ran without it, and the element is back: the
\* flag is still false.
C37_Witness ==
    /\ ~isInitialRenderRef
    /\ replays > 0
    /\ bound.did = "absent"
    /\ elementRef = "e1"
    /\ needsEffect = "update"

\* C38: between the operations of the driver no element has the inline
\* animation "none": replay and the timer callback both leave it empty, so a
\* class of the driver on an element is never suppressed by the override.
C38_AnimationOverrideCleared ==
    /\ [](\A e \in Elements : el[e].animation = Raw(""))
    /\ [][(\E e \in Elements :
              AnimateClasses(el'[e]) # AnimateClasses(el[e]))
             => \A e \in Elements : el'[e].animation = Raw("")]_vars

\* C38 witness: a replay on the present element was followed by a bind whose
\* activation has added the class again, and the inline animation is empty.
C38_Witness ==
    /\ replays > 0
    /\ bound.did = "activated"
    /\ bound.key = replays
    /\ bound.cls \in el["e1"].classList
    /\ el["e1"].animation = Raw("")

============================================================================
